---- MODULE Spec2Model ----
(***************************************************************************)
(* A model of the ATM10 icon pipeline:                                     *)
(*   - the extractor's main() (src/unnamed/part_001): the scan of the mod  *)
(*     jars and of the vanilla jar, the block-model and geo resolution,    *)
(*     the scan of the loose asset trees and the manifest merge;           *)
(*   - a second run of main() over the output of the first (RerunSpec);    *)
(*   - the zip reader findEOCD / parseZip / extractEntry on byte buffers   *)
(*     (ZipSpec);                                                          *)
(*   - the atlas builder's buildAtlas() (AtlasSpec) and findIconPath()     *)
(*     (LookupSpec), both of src/unnamed/part_000.                         *)
(* The advancement map that main() writes last reads no state of the       *)
(* stages above and changes none; it is left out.                          *)
(*                                                                         *)
(* Representation.  A file name is a record [dirs, stem, ext]: the         *)
(* directory segments, the file name without its extension, and the        *)
(* extension.  A path below the output directory is the sequence of its    *)
(* segments, the last without ".png" (every file the extractor writes or   *)
(* looks up ends in ".png").  Manifest keys are strings built by           *)
(* concatenation as the code builds them.  A JS object is a function       *)
(* whose DOMAIN is the key set; `!obj[k]` is `k \notin DOMAIN obj` since   *)
(* no value stored is falsy.                                               *)
(***************************************************************************)
EXTENDS Integers, Sequences, FiniteSets, TLC

\* ------------------------------------------------------------------ bounds
NumArchives == 2      \* mod jars in the mods directory
MaxEntries  == 2      \* archive entries scanned in one run (all jars together)
MaxLoose    == 1      \* loose png files found under the static asset trees
MaxIcons    == 66     \* length of the atlas builder's input list
MaxFail     == 1      \* source images that fail to load in one atlas run
BatchLead   == 6      \* iterations left before a batch fills, where a long atlas run is taken up
MaxRecords  == 2      \* records in the central directory of an archive buffer
BigLen      == 70000  \* length of the buffers longer than 64KB

\* ------------------------------------------------- program constants (atlas)
TILE  == 16
COLS  == 64
BATCH == 2000

VARIABLES
  pc,          \* stage of the extractor's main(), or of buildAtlas()
  jar,         \* index i of the mod jar being scanned
  scanned,     \* number of archive entries scanned so far
  files,       \* the png files present under the output icons directory
  itemPaths,   \* key -> relative url, item category
  blockPaths,  \* key -> relative url, block category (and entity, variants)
  blockModels, \* key -> [top, side, front, tex]; tex is the parsed mapping
  modelOrder,  \* insertion order of blockModels' keys (Object.entries order)
  geoModels,   \* key -> [u, v, size]
  geoOrder,    \* insertion order of geoModels' keys
  manifest,    \* the canonical manifest written by the merge
  loose,       \* number of loose files walked so far
  regLog,      \* history: the registrations reached by direct textures
  docLog,      \* history: the descriptor documents met by the scans
  iconPaths,   \* buildAtlas: the input list of ids (its length is what matters)
  idx,         \* buildAtlas: loop index i
  failed,      \* buildAtlas: number of images that failed to load so far
  composites,  \* buildAtlas: the pending batch, a set of [id, left, top]
  canvas,      \* buildAtlas: the tiles composited onto base so far
  flushes,     \* history: the sizes of the batches handed to composite()
  icons,       \* buildAtlas: manifest, id -> [x, y]
  atlasManifest, \* buildAtlas: the emitted atlas manifest, or NoManifest
  recording,   \* history: whether the choices of the run are logged for a re-run
  run,         \* 1 in a first run, 2 in the re-run over its output directory
  log,         \* history: the inputs met by the first run, in order
  replay,      \* the part of the first run's inputs the re-run has yet to meet
  manifest1,   \* history: the manifest the first run wrote
  query,       \* findIconPath: its arguments [id, manifest] and the disk
  found,       \* findIconPath: the value returned, or NotCalled
  buf,         \* the zip reader: the archive buffer, [len, bytes]
  arch,        \* history: what the buffer was built from, [recs, mode]
  eocd,        \* parseZip: the value of findEOCD(buf)
  zipEntries,  \* parseZip: the entries returned
  picked,      \* the index of the entry handed to extractEntry
  data         \* extractEntry: the value returned, [ok, bytes]

extractVars == <<jar, scanned, files, itemPaths, blockPaths, blockModels,
                 modelOrder, geoModels, geoOrder, manifest, loose, regLog, docLog>>
atlasVars   == <<iconPaths, idx, failed, composites, canvas, flushes, icons, atlasManifest>>
rerunVars   == <<recording, run, log, replay, manifest1>>
zipVars     == <<buf, arch, eocd, zipEntries, picked, data>>
pureVars    == <<query, found, zipVars>>
vars        == <<pc, extractVars, atlasVars, rerunVars, pureVars>>

Empty == <<>>     \* the empty JS object {} (a function with empty DOMAIN)

\* ----------------------------------------------------------- string helpers
RECURSIVE Join(_, _)
\* segs.join(sep)
Join(segs, sep) ==
  IF Len(segs) = 0 THEN ""
  ELSE IF Len(segs) = 1 THEN segs[1]
  ELSE segs[1] \o sep \o Join(Tail(segs), sep)

Last(s) == s[Len(s)]

\* `${ns}:${name}`
Key(ns, name) == ns \o ":" \o name

\* A write without the presence test.
PutOverwrite(store, key, value) ==
  [k \in DOMAIN store \cup {key} |-> IF k = key THEN value ELSE store[k]]

\* if (!store[key]) store[key] = value
PutIfAbsent(store, key, value) ==
  IF key \in DOMAIN store THEN store ELSE store @@ (key :> value)

\* store[key] = value
Put(store, key, value) ==
  [k \in DOMAIN store \cup {key} |-> IF k = key THEN value ELSE store[k]]

\* ------------------------------------------------------- values and inputs
\* A value of a block model's `textures` mapping.
\*   ref     a string with a colon, "ns:path"
\*   nocolon a non-empty string without colon and not starting with '#'
\*   alias   a string starting with '#'
\*   nonstr  a value that is not a string
Ref(ns, path)  == [t |-> "ref",     ns |-> ns, path |-> path]
NoColon(path)  == [t |-> "nocolon", ns |-> "", path |-> path]
Alias          == [t |-> "alias",   ns |-> "", path |-> <<>>]
NonStr         == [t |-> "nonstr",  ns |-> "", path |-> <<>>]
Null           == [t |-> "null",    ns |-> "", path |-> <<>>]

\* A cube of a geo model: uv is an array [u, v] (kind "array"), an object of
\* faces (kind "faces", a sequence of <<face name, face>>), or absent.
Face(hasUv, u, v, size) == [hasUv |-> hasUv, u |-> u, v |-> v, size |-> size]
Cube(kind, u, v, size, faces) ==
  [kind |-> kind, u |-> u, v |-> v, size |-> size, faces |-> faces]
Bone(head, cubes) == [head |-> head, cubes |-> cubes]

\* The content of a json entry: whether JSON.parse succeeds, json.textures as
\* a sequence of <<role, value>> in property order, and the bones of a geo.
Doc(valid, textures, bones) ==
  [valid |-> valid, textures |-> textures, bones |-> bones]
NoDoc == Doc(FALSE, <<>>, <<>>)

Name(dirs, stem, ext) == [dirs |-> dirs, stem |-> stem, ext |-> ext]
\* An archive entry: its name, whether extractEntry returns data, its content.
Entry(name, ok, doc) == [name |-> name, ok |-> ok, doc |-> doc]

Prefix == <<"common", "src", "main", "resources">>

TextureNames ==
  { Name(<<"assets", "m", "textures", "item">>, "gem", "png"),
    Name(<<"assets", "m", "textures", "items", "a">>, "gem", "png"),
    Name(<<"assets", "m", "textures", "block">>, "gem", "png"),
    Name(<<"assets", "m", "textures", "entity">>, "gem", "png"),
    Name(<<"assets", "m", "textures", "block", "entity">>, "gem", "png"),
    Name(Prefix \o <<"assets", "m", "textures", "blocks">>, "a_gem", "png"),
    Name(<<"assets", "minecraft", "textures", "block">>, "stone", "png") }

ModelDocs ==
  { Doc(FALSE, <<>>, <<>>),
    Doc(TRUE, <<>>, <<>>),
    Doc(TRUE, << <<"side", Ref("m", <<"block", "gem">>)>> >>, <<>>),
    Doc(TRUE, << <<"top", Ref("m", <<"block", "missing">>)>>,
                 <<"side", Ref("m", <<"gem">>)>> >>, <<>>),
    Doc(TRUE, << <<"top", Alias>>,
                 <<"particle", Ref("m", <<"item", "gem">>)>> >>, <<>>),
    Doc(TRUE, << <<"all", NoColon(<<"block", "gem">>)>> >>, <<>>),
    Doc(TRUE, << <<"end", Ref("m", <<"block", "gem">>)>>,
                 <<"up", Ref("m", <<"item", "gem">>)>> >>, <<>>) }

VanillaModelDocs ==
  { Doc(TRUE, << <<"end", Ref("minecraft", <<"block", "stone">>)>>,
                 <<"up", Ref("minecraft", <<"block", "missing">>)>> >>, <<>>),
    Doc(TRUE, << <<"side", Ref("minecraft", <<"block", "stone">>)>> >>, <<>>) }

GeoDocs ==
  { Doc(FALSE, <<>>, <<>>),
    Doc(TRUE, <<>>, << Bone(FALSE, << Cube("array", 0, 0, <<>>, <<>>) >>),
                       Bone(TRUE,  << Cube("array", 8, 8, <<8, 8, 8>>, <<>>) >>) >>),
    Doc(TRUE, <<>>, << Bone(FALSE, << Cube("faces", 0, 0, <<>>,
                         << <<"south", Face(TRUE, 4, 4, <<>>)>> >>) >>) >>),
    Doc(TRUE, <<>>, << Bone(TRUE, <<>>) >>) }

\* The entries an archive may hold.
Entries ==
  { Entry(n, ok, NoDoc) : n \in TextureNames, ok \in BOOLEAN }
  \cup { Entry(Name(<<"assets", "m", "models", "block">>, stem, "json"), TRUE, d) :
           stem \in {"gem", "lamp"}, d \in ModelDocs }
  \cup { Entry(Name(<<"assets", "m", "models", "block">>, "lamp", "json"), FALSE, NoDoc) }
  \cup { Entry(Name(<<"assets", "m", "models", "block">>, "lamp", "json"), TRUE,
                 Doc(TRUE, << <<"side", Ref("kube", <<"textures", "lamp">>)>> >>, <<>>)) }
  \cup { Entry(Name(<<"assets", "minecraft", "models", "block">>, "stone", "json"), TRUE, d) :
           d \in VanillaModelDocs }
  \cup { Entry(Name(<<"assets", "m", "geo", "entity">>, "gem", "json"), TRUE, d) :
           d \in GeoDocs }
  \cup { Entry(Name(Prefix \o <<"assets", "m", "geo">>, "gem", "json"), FALSE, NoDoc),
         Entry(Name(<<"META-INF">>, "MANIFEST", "MF"), TRUE, NoDoc) }

\* A loose png file below <staticDir>/<ns>/textures: its namespace directory
\* and its path relative to textures/.
LooseFile(ns, rel) == [ns |-> ns, rel |-> rel]
\* The contents the output icons directory may have when main() starts: empty,
\* or the files an earlier run left.
PriorFiles ==
  { {},
    {<<"icons", "m", "block", "gem">>},
    {<<"icons", "m", "item", "gem">>, <<"icons", "m", "entity", "gem">>} }

LooseFiles ==
  { LooseFile("m", <<"item", "gem">>),
    LooseFile("m", <<"block", "gem">>),
    LooseFile("m", <<"questpics", "gem">>),
    LooseFile("kube", <<"lamp">>) }

\* ------------------------------------------------------------ path matching
\* The optional group (?:common\/src\/main\/resources\/)? of the patterns.
StripPrefix(dirs) ==
  IF Len(dirs) >= 4 /\ SubSeq(dirs, 1, 4) = Prefix
  THEN SubSeq(dirs, 5, Len(dirs)) ELSE dirs

\* ^(prefix)?assets\/([^/]+)\/<kind>\/(<cats>)\/(.+\.<ext>)$
\* The result: hit, ns (group 1), category, sub (the last group, a sequence of
\* segments, the last without the extension).
NoMatch == [hit |-> FALSE, ns |-> "", category |-> "", sub |-> <<>>]
MatchAssets(name, optPrefix, kind, cats, ext) ==
  LET d == IF optPrefix THEN StripPrefix(name.dirs) ELSE name.dirs IN
  IF /\ name.ext = ext
     /\ Len(d) >= 4
     /\ d[1] = "assets"
     /\ d[3] = kind
     /\ d[4] \in cats
  THEN [hit |-> TRUE, ns |-> d[2], category |-> d[4],
        sub |-> SubSeq(d, 5, Len(d)) \o <<name.stem>>]
  ELSE NoMatch

\* /^(?:common\/src\/main\/resources\/)?assets\/([^/]+)\/textures\/(items?|blocks?)\/(.+\.png)$/
MatchTexture(name) ==
  MatchAssets(name, TRUE, "textures", {"item", "items", "block", "blocks"}, "png")

\* /^assets\/([^/]+)\/models\/block\/(.+\.json)$/
MatchModel(name) == MatchAssets(name, FALSE, "models", {"block"}, "json")

\* /^(?:common\/src\/main\/resources\/)?assets\/([^/]+)\/textures\/entity\/(.+\.png)$/
MatchEntity(name) == MatchAssets(name, TRUE, "textures", {"entity"}, "png")

\* /^(?:common\/src\/main\/resources\/)?assets\/([^/]+)\/geo\/(?:entity\/)?(.+\.json)$/
MatchGeo(name) ==
  LET d == StripPrefix(name.dirs) IN
  IF name.ext = "json" /\ Len(d) >= 3 /\ d[1] = "assets" /\ d[3] = "geo"
  THEN [hit |-> TRUE, ns |-> d[2], category |-> "geo", sub |-> <<name.stem>>]
  ELSE NoMatch

\* /^assets\/minecraft\/textures\/(items?|blocks?)\/(.+\.png)$/
MatchVanillaTexture(name) ==
  LET m == MatchAssets(name, FALSE, "textures",
                       {"item", "items", "block", "blocks"}, "png") IN
  IF m.hit /\ m.ns = "minecraft" THEN m ELSE NoMatch

\* /^assets\/minecraft\/models\/block\/(.+\.json)$/
MatchVanillaModel(name) ==
  LET m == MatchModel(name) IN
  IF m.hit /\ m.ns = "minecraft" THEN m ELSE NoMatch

\* category === 'item' || category === 'items'
IsItem(category) == category \in {"item", "items"}

\* `icons/${ns}/${category}/${subpath}`, also path.join(iconsDir, ns, category, subpath)
RelUrl(ns, category, sub) == <<"icons", ns, category>> \o sub

\* path.basename(subpath, '.png')
Basename(sub) == Last(sub)

\* subpath.slice(0, -4).replace(/\//g, '_')
FlatName(sub) == Join(sub, "_")

\* ------------------------------------------------- direct texture registration
\* RegisterTexture with plain assignments: the last writer wins.
RegisterTextureOverwrite(store, ns, sub, relUrl) ==
  Put(Put(store, Key(ns, Basename(sub)), relUrl), Key(ns, FlatName(sub)), relUrl)

\* if (!store[`${ns}:${basename}`]) store[`${ns}:${basename}`] = relUrl;
\* if (flatName !== basename && !store[`${ns}:${flatName}`]) store[`${ns}:${flatName}`] = relUrl;
RegisterTexture(store, ns, sub, relUrl) ==
  LET s1 == PutIfAbsent(store, Key(ns, Basename(sub)), relUrl) IN
  IF FlatName(sub) # Basename(sub)
  THEN PutIfAbsent(s1, Key(ns, FlatName(sub)), relUrl)
  ELSE s1

\* History of the registrations reached by direct (item/block) textures: the
\* jar, the store, the key, the url, and whether the key was absent before.
RegEvents(j, m) ==
  LET store == IF IsItem(m.category) THEN itemPaths ELSE blockPaths
      s1    == PutIfAbsent(store, Key(m.ns, Basename(m.sub)), RelUrl(m.ns, m.category, m.sub)) IN
  { [jar |-> j, item |-> IsItem(m.category), key |-> Key(m.ns, Basename(m.sub)),
     url |-> RelUrl(m.ns, m.category, m.sub),
     absent |-> Key(m.ns, Basename(m.sub)) \notin DOMAIN store] }
  \cup
  IF FlatName(m.sub) # Basename(m.sub)
  THEN { [jar |-> j, item |-> IsItem(m.category), key |-> Key(m.ns, FlatName(m.sub)),
          url |-> RelUrl(m.ns, m.category, m.sub),
          absent |-> Key(m.ns, FlatName(m.sub)) \notin DOMAIN s1] }
  ELSE {}

\* The item/block texture branch of the entry loop (mod jars and vanilla jar):
\* extract the file unless it is there, `continue` when extraction fails, else
\* register the url in the category's store.
TextureStep(e, m, j) ==
  LET outFile == RelUrl(m.ns, m.category, m.sub) IN
  IF outFile \notin files /\ ~e.ok
  THEN UNCHANGED <<files, itemPaths, blockPaths, regLog>>
  ELSE /\ files' = files \cup {outFile}
       /\ IF IsItem(m.category)
          THEN /\ itemPaths' = RegisterTexture(itemPaths, m.ns, m.sub, outFile)
               /\ UNCHANGED blockPaths
          ELSE /\ blockPaths' = RegisterTexture(blockPaths, m.ns, m.sub, outFile)
               /\ UNCHANGED itemPaths
       /\ regLog' = regLog \cup RegEvents(j, m)

\* ------------------------------------------------------ block model parsing
\* tex[n], Null when the mapping has no property n
TexGet(tex, n) ==
  IF \E i \in 1..Len(tex) : tex[i][1] = n
  THEN tex[CHOOSE i \in 1..Len(tex) : tex[i][1] = n][2]
  ELSE Null

\* v && typeof v === 'string' && !v.startsWith('#')
Usable(v) == v.t \in {"ref", "nocolon"}

RECURSIVE resolve(_, _)
\* const resolve = (names) => { for (const n of names) { ... return v; } return null; }
resolve(tex, names) ==
  IF Len(names) = 0 THEN Null
  ELSE IF Usable(TexGet(tex, Head(names))) THEN TexGet(tex, Head(names))
  ELSE resolve(tex, Tail(names))

\* Object.values(tex).find(v => typeof v === 'string' && !v.startsWith('#'))
FirstValue(tex) ==
  IF \E i \in 1..Len(tex) : Usable(tex[i][2])
  THEN tex[CHOOSE i \in 1..Len(tex) :
             Usable(tex[i][2]) /\ \A j \in 1..(i - 1) : ~Usable(tex[j][2])][2]
  ELSE Null

\* a || b
Or(a, b) == IF a # Null THEN a ELSE b

ModTopNames   == <<"top", "top_face", "up", "cap", "end", "all">>
ModSideNames  == <<"side", "side_face", "texture", "all", "wall">>
ModFrontNames == <<"front", "face", "front_face", "south", "north", "side">>
VanillaTopNames   == <<"top", "end", "all", "up">>
VanillaSideNames  == <<"side", "texture", "all", "wall">>
VanillaFrontNames == <<"front", "face", "south", "north", "side">>

\* ParseFaces without the `|| first` fallback of the faces.
ParseFacesNoFallback(tex, topNames, sideNames, frontNames) ==
  LET top   == resolve(tex, topNames)
      side  == resolve(tex, sideNames)
      front == resolve(tex, frontNames)
      first == Or(top, Or(side, Or(front, FirstValue(tex)))) IN
  [some |-> first # Null, top |-> top, side |-> side, front |-> front, tex |-> tex]

\* The faces recorded for a parsed document: [some, top, side, front].
ParseFaces(tex, topNames, sideNames, frontNames) ==
  LET top   == resolve(tex, topNames)
      side  == resolve(tex, sideNames)
      front == resolve(tex, frontNames)
      first == Or(top, Or(side, Or(front, FirstValue(tex)))) IN
  [some |-> first # Null, top |-> Or(top, first), side |-> Or(side, first),
   front |-> Or(front, first), tex |-> tex]

\* ModelStep without the `if (!blockModels[key])` guard.
ModelStepNoGuard(e, mj, topNames, sideNames, frontNames) ==
  LET key   == Key(mj.ns, mj.sub[Len(mj.sub)])
      faces == ParseFaces(e.doc.textures, topNames, sideNames, frontNames) IN
  IF e.ok /\ e.doc.valid /\ faces.some
  THEN /\ blockModels' = Put(blockModels, key,
                             [top |-> faces.top, side |-> faces.side,
                              front |-> faces.front, tex |-> faces.tex])
       /\ modelOrder' = IF key \in DOMAIN blockModels THEN modelOrder
                        ELSE Append(modelOrder, key)
  ELSE UNCHANGED <<blockModels, modelOrder>>

\* ModelStep whose catch block records the key with no face.
ModelStepMarking(e, mj, topNames, sideNames, frontNames) ==
  LET key   == Key(mj.ns, mj.sub[Len(mj.sub)])
      faces == ParseFaces(e.doc.textures, topNames, sideNames, frontNames) IN
  IF key \notin DOMAIN blockModels /\ e.ok /\ (~e.doc.valid \/ faces.some)
  THEN /\ blockModels' = blockModels @@
            (key :> [top |-> faces.top, side |-> faces.side,
                     front |-> faces.front, tex |-> faces.tex])
       /\ modelOrder' = Append(modelOrder, key)
  ELSE UNCHANGED <<blockModels, modelOrder>>

\* The block model branch: if (!blockModels[key]) { extract; parse; record }
ModelStep(e, mj, topNames, sideNames, frontNames) ==
  LET key   == Key(mj.ns, mj.sub[Len(mj.sub)])
      faces == ParseFaces(e.doc.textures, topNames, sideNames, frontNames) IN
  IF key \notin DOMAIN blockModels /\ e.ok /\ e.doc.valid /\ faces.some
  THEN /\ blockModels' = blockModels @@
            (key :> [top |-> faces.top, side |-> faces.side,
                     front |-> faces.front, tex |-> faces.tex])
       /\ modelOrder' = Append(modelOrder, key)
  ELSE UNCHANGED <<blockModels, modelOrder>>

\* What the scan met in a descriptor document, for the history.  n: the
\* number of descriptor documents met before it; fresh: the map held no value
\* for the key; read: extractEntry returned data, so JSON.parse was called;
\* malformed: JSON.parse threw; took: the map took a value from the document.
DocEvent(kind, key, e, fresh, some) ==
  [kind |-> kind, key |-> key, n |-> Cardinality(docLog), fresh |-> fresh,
   read |-> fresh /\ e.ok,
   malformed |-> fresh /\ e.ok /\ ~e.doc.valid,
   took |-> fresh /\ e.ok /\ e.doc.valid /\ some]

ModelEvents(e, mj, topNames, sideNames, frontNames) ==
  IF mj.hit
  THEN { DocEvent("model", Key(mj.ns, mj.sub[Len(mj.sub)]), e,
                  Key(mj.ns, mj.sub[Len(mj.sub)]) \notin DOMAIN blockModels,
                  ParseFaces(e.doc.textures, topNames, sideNames, frontNames).some) }
  ELSE {}

\* The entity branch: extract when absent and extractable; register the url in
\* blockPaths under keys that neither store holds.
EntityStep(e, me) ==
  LET outFile  == RelUrl(me.ns, "entity", me.sub)
      key1     == Key(me.ns, Basename(me.sub))
      key2     == Key(me.ns, FlatName(me.sub))
      b1       == IF key1 \notin DOMAIN itemPaths /\ key1 \notin DOMAIN blockPaths
                  THEN Put(blockPaths, key1, outFile) ELSE blockPaths
      b2       == IF /\ FlatName(me.sub) # Basename(me.sub)
                     /\ key2 \notin DOMAIN itemPaths /\ key2 \notin DOMAIN b1
                  THEN Put(b1, key2, outFile) ELSE b1 IN
  /\ files' = IF outFile \notin files /\ e.ok THEN files \cup {outFile} ELSE files
  /\ blockPaths' = b2

\* ------------------------------------------------------------------ geo models
NoUV == [some |-> FALSE, u |-> 0, v |-> 0, size |-> <<>>]

\* uv.north || uv.south || Object.values(uv)[0]
PickFace(faces) ==
  IF \E i \in 1..Len(faces) : faces[i][1] = "north"
  THEN faces[CHOOSE i \in 1..Len(faces) : faces[i][1] = "north"][2]
  ELSE IF \E i \in 1..Len(faces) : faces[i][1] = "south"
  THEN faces[CHOOSE i \in 1..Len(faces) : faces[i][1] = "south"][2]
  ELSE IF Len(faces) > 0 THEN faces[1][2]
  ELSE Face(FALSE, 0, 0, <<>>)

\* The head uv read from a parsed geo document.
GeoUV(doc) ==
  LET bones == doc.bones IN
  IF Len(bones) = 0 THEN NoUV
  ELSE
    LET headBone ==
          IF \E i \in 1..Len(bones) : bones[i].head
          THEN bones[CHOOSE i \in 1..Len(bones) :
                       bones[i].head /\ \A j \in 1..(i - 1) : ~bones[j].head]
          ELSE bones[1] IN
    IF Len(headBone.cubes) = 0 THEN NoUV
    ELSE
      LET cube == headBone.cubes[1] IN
      IF cube.kind = "array"
      THEN [some |-> TRUE, u |-> cube.u, v |-> cube.v,
            size |-> IF cube.size # <<>> THEN cube.size ELSE <<8, 8, 8>>]
      ELSE IF cube.kind = "faces"
      THEN LET face == PickFace(cube.faces) IN
           IF face.hasUv
           THEN [some |-> TRUE, u |-> face.u, v |-> face.v,
                 size |-> IF face.size # <<>> THEN face.size ELSE <<8, 8>>]
           ELSE NoUV
      ELSE NoUV

\* The geo branch: if (mg && !geoModels[key]) { extract; parse; record }
GeoStep(e, mg) ==
  LET key == Key(mg.ns, mg.sub[1])
      uv  == GeoUV(e.doc) IN
  IF key \notin DOMAIN geoModels /\ e.ok /\ e.doc.valid /\ uv.some
  THEN /\ geoModels' = geoModels @@ (key :> [u |-> uv.u, v |-> uv.v, size |-> uv.size])
       /\ geoOrder' = Append(geoOrder, key)
  ELSE UNCHANGED <<geoModels, geoOrder>>

GeoEvents(e, mg) ==
  IF mg.hit
  THEN { DocEvent("geo", Key(mg.ns, mg.sub[1]), e,
                  Key(mg.ns, mg.sub[1]) \notin DOMAIN geoModels, GeoUV(e.doc).some) }
  ELSE {}

\* --------------------------------------------------- block model resolution
NoUrl == <<>>     \* null, where a url is expected

\* c.replace(/.*\/icons\//, 'icons/'): the greedy match ends at the last
\* "/icons/" of the absolute path, so the result keeps what follows the last
\* segment "icons" that is not the final one.
StripToIcons(c) ==
  LET j == CHOOSE i \in 1..(Len(c) - 1) :
             c[i] = "icons" /\ \A k \in (i + 1)..(Len(c) - 1) : c[k] # "icons" IN
  <<"icons">> \o SubSeq(c, j + 1, Len(c))

\* resolveTexRef without the fs.existsSync test: the first candidate is returned.
resolveTexRefNoExists(texRef, disk) ==
  IF texRef = Null THEN NoUrl
  ELSE IF texRef.t # "ref" THEN NoUrl
  ELSE StripToIcons(<<"icons", texRef.ns>> \o texRef.path)

\* function resolveTexRef(texRef), reading the disk contents `disk`
resolveTexRef(texRef, disk) ==
  IF texRef = Null THEN NoUrl
  ELSE IF texRef.t # "ref" THEN NoUrl          \* colon === -1
  ELSE
    LET c1 == <<"icons", texRef.ns>> \o texRef.path
        c2 == <<"icons", texRef.ns, "block", Last(texRef.path)>> IN
    IF c1 \in disk THEN StripToIcons(c1)
    ELSE IF c2 \in disk THEN StripToIcons(c2)
    ELSE NoUrl

\* a || b on urls
OrUrl(a, b) == IF a # NoUrl THEN a ELSE b

\* if (url) store[key] = url
PutIfUrl(store, key, url) == IF url # NoUrl THEN Put(store, key, url) ELSE store

\* ResolveOne without the `if (itemPaths[key]) continue` guard.
ResolveOneNoItemGuard(bp, key) ==
  LET faces    == blockModels[key]
      topUrl   == resolveTexRef(faces.top, files)
      sideUrl  == resolveTexRef(faces.side, files)
      frontUrl == resolveTexRef(faces.front, files)
      anyUrl   == OrUrl(topUrl, OrUrl(sideUrl, frontUrl)) IN
  IF anyUrl = NoUrl THEN bp
  ELSE PutIfUrl(PutIfUrl(PutIfUrl(PutIfAbsent(bp, key, anyUrl),
                                  key \o "#top", topUrl),
                         key \o "#side", sideUrl),
                key \o "#front", frontUrl)

\* One iteration of the resolution loop, on the block store bp.
ResolveOne(bp, key) ==
  LET faces    == blockModels[key]
      topUrl   == resolveTexRef(faces.top, files)
      sideUrl  == resolveTexRef(faces.side, files)
      frontUrl == resolveTexRef(faces.front, files)
      anyUrl   == OrUrl(topUrl, OrUrl(sideUrl, frontUrl)) IN
  IF key \in DOMAIN itemPaths THEN bp
  ELSE IF anyUrl = NoUrl THEN bp
  ELSE PutIfUrl(PutIfUrl(PutIfUrl(PutIfAbsent(bp, key, anyUrl),
                                  key \o "#top", topUrl),
                         key \o "#side", sideUrl),
                key \o "#front", frontUrl)

RECURSIVE ResolveAll(_, _)
\* for (const [key, faces] of Object.entries(blockModels)) ...
ResolveAll(bp, keys) ==
  IF Len(keys) = 0 THEN bp
  ELSE ResolveAll(ResolveOne(bp, Head(keys)), Tail(keys))

\* ----------------------------------------------------------- geo resolution
\* entityUrl.includes('/entity/')
IncludesEntity(url) == \E i \in 2..(Len(url) - 1) : url[i] = "entity"

\* JSON.stringify(uv), as a one-segment value
Stringify(uv) == <<ToString(uv)>>

\* One iteration of the geo loop, on the block store bp.
GeoOne(bp, key) ==
  IF key \notin DOMAIN bp THEN bp
  ELSE IF ~IncludesEntity(bp[key]) THEN bp
  ELSE Put(bp, key \o "#head_uv", Stringify(geoModels[key]))

RECURSIVE GeoAll(_, _)
\* for (const [key, uv] of Object.entries(geoModels)) ...
GeoAll(bp, keys) ==
  IF Len(keys) = 0 THEN bp
  ELSE GeoAll(GeoOne(bp, Head(keys)), Tail(keys))

\* ------------------------------------------------------------ loose assets
\* `${ns}:textures/${rel}`
McKey(ns, rel) == ns \o ":textures/" \o Join(rel, "/") \o ".png"

\* The three registrations of walkDir, on the item store ip.
RegisterLoose(ip, f) ==
  LET relUrl == <<"icons", f.ns, "textures">> \o f.rel IN
  PutIfAbsent(PutIfAbsent(PutIfAbsent(ip, Key(f.ns, Basename(f.rel)), relUrl),
                          Key(f.ns, FlatName(f.rel)), relUrl),
              McKey(f.ns, f.rel), relUrl)

\* -------------------------------------------------------------- the merge
\* Assign with the arguments swapped: the block store overlays the item store.
AssignBlockWins(bp, ip) ==
  [k \in DOMAIN bp \cup DOMAIN ip |-> IF k \in DOMAIN bp THEN bp[k] ELSE ip[k]]

\* Assign that forgets the block store.
AssignDropBlockOnly(bp, ip) == ip

\* Object.assign({}, blockPaths, itemPaths)
Assign(bp, ip) ==
  [k \in DOMAIN bp \cup DOMAIN ip |-> IF k \in DOMAIN ip THEN ip[k] ELSE bp[k]]

\* ---------------------------------------------------------------- the atlas
NoManifest == [tile |-> 0, cols |-> 0, rows |-> 0, width |-> 0, height |-> 0,
               icons |-> Empty, written |-> FALSE]

\* Rows with Math.floor in place of Math.ceil.
RowsFloor(count) == count \div COLS

\* Math.ceil(count / COLS)
Rows(count) == (count + COLS - 1) \div COLS

\* TilePos with column and row exchanged.
TilePosSwapped(i) == [x |-> (i \div COLS) * TILE, y |-> (i % COLS) * TILE]

\* The position taken from the number of tiles placed so far instead.
TilePosCompact(i) ==
  [x |-> ((i - failed) % COLS) * TILE, y |-> ((i - failed) \div COLS) * TILE]

\* TilePos with the column taken modulo TILE.
TilePosModTile(i) == [x |-> (i % TILE) * TILE, y |-> (i \div COLS) * TILE]

\* col = i % COLS, row = Math.floor(i / COLS), left = col * TILE, top = row * TILE
TilePos(i) == [x |-> (i % COLS) * TILE, y |-> (i \div COLS) * TILE]

\* The lengths of the input list the model tries.
AtlasLens == (0..3) \cup ((COLS - 1)..MaxIcons)

\* The lengths tried around the batch size.
BatchLens == (BATCH - 1)..(BATCH + 2)

\* The tiles pushed by the iterations 0..k-1 when every image loaded.
FirstTiles(k) ==
  {[id |-> i + 1, left |-> TilePos(i).x, top |-> TilePos(i).y] : i \in 0..(k - 1)}

\* ------------------------------------------------------------ findIconPath
\* An id handed to findIconPath.  colon: the id has a ':'; ns: the text before
\* the first ':'; segs: the text after it split at '/', the last segment
\* without a trailing ".png"; png: the text ends with ".png".
Id(colon, ns, segs, png) == [colon |-> colon, ns |-> ns, segs |-> segs, png |-> png]

\* id.slice(colon + 1)
IdName(id) == Join(id.segs, "/") \o (IF id.png THEN ".png" ELSE "")

\* The id as the string it is.
IdString(id) == IF id.colon THEN Key(id.ns, IdName(id)) ELSE IdName(id)

\* name.split('/').pop().replace(/\.png$/, '')
IdBasename(id) == Last(id.segs)

\* const variants = [ id, `${ns}:${basename}`, `${ns}:${name}_item` ]
IconVariants(id) ==
  << IdString(id), Key(id.ns, IdBasename(id)), Key(id.ns, IdName(id) \o "_item") >>

NotCalled == [called |-> FALSE, path |-> <<>>]
Returned(path) == [called |-> TRUE, path |-> path]

RECURSIVE FirstOnDisk(_, _, _)
\* for (const v of variants) if (manifest[v] && fs.existsSync(absPath)) return absPath;
\* return null
FirstOnDisk(variants, man, disk) ==
  IF variants = <<>> THEN NoUrl
  ELSE IF Head(variants) \in DOMAIN man /\ man[Head(variants)] \in disk
       THEN man[Head(variants)]
       ELSE FirstOnDisk(Tail(variants), man, disk)

findIconPath(id, man, disk) ==
  IF ~id.colon THEN NoUrl ELSE FirstOnDisk(IconVariants(id), man, disk)

NoQuery == [id |-> Id(FALSE, "", <<>>, FALSE), manifest |-> Empty, disk |-> {}]

\* The ids looked up.
QueryIds ==
  { Id(TRUE, "m", <<"gem">>, FALSE),
    Id(TRUE, "m", <<"textures", "questpics", "gem">>, TRUE),
    Id(TRUE, "m", <<"dir", "gem">>, FALSE),
    Id(TRUE, "m", <<"lamp">>, FALSE),
    Id(FALSE, "", <<"gem">>, FALSE) }

\* The manifest entries a lookup may meet; a manifest is a subset of them.
QueryEntries ==
  ("m:gem" :> <<"icons", "m", "item", "gem">>)
  @@ ("m:gem_item" :> <<"icons", "m", "item", "gem_item">>)
  @@ ("m:textures/questpics/gem.png" :> <<"icons", "m", "textures", "questpics", "gem">>)
  @@ ("gem" :> <<"icons", "m", "block", "gem">>)

\* ------------------------------------------------------------ the zip reader
\* A Buffer is [len, bytes]: its length and a function from offsets (from 0)
\* to byte values; an offset below len that bytes does not list holds 0.
\* buf[o]; past the end JS reads undefined, which is 0 under | and differs
\* from every byte of a signature under ===.
At(b, o) == IF o \in DOMAIN b.bytes THEN b.bytes[o] ELSE 0

\* b[o] | (b[o+1] << 8)
readUInt16LE(b, o) == At(b, o) + At(b, o + 1) * 256

\* (b[o] | (b[o+1]<<8) | (b[o+2]<<16) | (b[o+3]<<24)) >>> 0: the unsigned
\* 32-bit value, which is the sum of the four bytes by their weights.
readUInt32LE(b, o) ==
  At(b, o) + At(b, o + 1) * 256 + At(b, o + 2) * 65536 + At(b, o + 3) * 16777216

\* buf[i]===0x50 && buf[i+1]===0x4b && buf[i+2]===c && buf[i+3]===d
SigAt(b, i, c, d) ==
  At(b, i) = 80 /\ At(b, i + 1) = 75 /\ At(b, i + 2) = c /\ At(b, i + 3) = d

\* The greatest offset below i that holds a non-zero byte, or -1.  The scan
\* steps over runs of zero bytes at once: no signature starts on a zero byte.
NextBelow(b, i) ==
  LET S == {o \in DOMAIN b.bytes : o < i /\ b.bytes[o] # 0} IN
  IF S = {} THEN -1 ELSE CHOOSE o \in S : \A q \in S : q <= o

RECURSIVE ScanDown(_, _)
\* for (let i = ...; i >= 0; i--) if (signature at i) return i;  return -1
ScanDown(b, i) ==
  IF i < 0 THEN -1
  ELSE IF SigAt(b, i, 5, 6) THEN i
  ELSE ScanDown(b, NextBelow(b, i))

\* The scan confined to the last 64KB + 22 bytes of the buffer.
findEOCDWindowed(b) ==
  LET i == ScanDown(b, b.len - 22) IN
  IF i < b.len - 22 - 65536 THEN -1 ELSE i

\* function findEOCD(buf): the scan starts at buf.length - 22
findEOCD(b) == ScanDown(b, b.len - 22)

\* buf.toString('utf8', start, end) and buf.slice(start, end): the bytes of
\* [start, end), both ends clamped to the buffer.  Names are ASCII.
Slice(b, start, end) ==
  LET s == IF start > b.len THEN b.len ELSE start
      e == IF end > b.len THEN b.len ELSE end IN
  IF e <= s THEN <<>> ELSE [k \in 1..(e - s) |-> At(b, s + k - 1)]

ZipEntry(name, compression, compSize, localOffset) ==
  [name |-> name, compression |-> compression, compSize |-> compSize,
   localOffset |-> localOffset]

RECURSIVE WalkNoComment(_, _)
\* The walk that leaves commentLen out of the advance.
WalkNoComment(b, pos) ==
  IF pos + 46 > b.len THEN <<>>
  ELSE IF ~SigAt(b, pos, 1, 2) THEN <<>>
  ELSE LET nameLen == readUInt16LE(b, pos + 28)
           extraLen == readUInt16LE(b, pos + 30) IN
       << ZipEntry(Slice(b, pos + 46, pos + 46 + nameLen),
                   readUInt16LE(b, pos + 10), readUInt32LE(b, pos + 20),
                   readUInt32LE(b, pos + 42)) >>
       \o WalkNoComment(b, pos + 46 + nameLen + extraLen)

RECURSIVE Walk(_, _)
\* while (pos + 46 <= buf.length) { if (signature differs) break; ... }
Walk(b, pos) ==
  IF pos + 46 > b.len THEN <<>>
  ELSE IF ~SigAt(b, pos, 1, 2) THEN <<>>
  ELSE LET nameLen == readUInt16LE(b, pos + 28)
           extraLen == readUInt16LE(b, pos + 30)
           commentLen == readUInt16LE(b, pos + 32) IN
       << ZipEntry(Slice(b, pos + 46, pos + 46 + nameLen),
                   readUInt16LE(b, pos + 10), readUInt32LE(b, pos + 20),
                   readUInt32LE(b, pos + 42)) >>
       \o Walk(b, pos + 46 + nameLen + extraLen + commentLen)

\* function parseZip(buf)
parseZip(b) ==
  IF findEOCD(b) = -1 THEN <<>> ELSE Walk(b, readUInt32LE(b, findEOCD(b) + 16))

NoData == [ok |-> FALSE, bytes |-> <<>>]
Bytes(seq) == [ok |-> TRUE, bytes |-> seq]

\* zlib.inflateRawSync on a stream of one final stored block:
\* 01, LEN (2 bytes), NLEN = ~LEN (2 bytes), LEN bytes of data.  A stream
\* that ends early, or whose NLEN is not the complement of LEN, throws.
Inflate(c) ==
  IF Len(c) < 5 THEN NoData
  ELSE IF c[1] # 1 THEN NoData
  ELSE LET len  == c[2] + c[3] * 256
           nlen == c[4] + c[5] * 256 IN
       IF nlen # 65535 - len THEN NoData
       ELSE IF Len(c) < 5 + len THEN NoData
       ELSE Bytes(SubSeq(c, 6, 5 + len))

\* extractEntry with the data start taken without the local extra length.
extractEntryNoExtra(b, entry) ==
  LET lh == entry.localOffset IN
  IF lh + 30 > b.len THEN NoData
  ELSE LET nameLen == readUInt16LE(b, lh + 26)
           dataStart == lh + 30 + nameLen
           compressed == Slice(b, dataStart, dataStart + entry.compSize) IN
       IF entry.compression = 0 THEN Bytes(compressed)
       ELSE IF entry.compression = 8 THEN Inflate(compressed)
       ELSE NoData

\* function extractEntry(buf, entry)
extractEntry(b, entry) ==
  LET lh == entry.localOffset IN
  IF lh + 30 > b.len THEN NoData
  ELSE LET nameLen == readUInt16LE(b, lh + 26)
           extraLen == readUInt16LE(b, lh + 28)
           dataStart == lh + 30 + nameLen + extraLen
           compressed == Slice(b, dataStart, dataStart + entry.compSize) IN
       IF entry.compression = 0 THEN Bytes(compressed)
       ELSE IF entry.compression = 8 THEN Inflate(compressed)
       ELSE NoData

\* ------------------------------------------------------- archive buffers
\* The archives the reader is run on are laid out as a zip writer lays them
\* out: the local headers with their data, the central directory, the
\* end-of-central-directory record and the archive comment.
Le16(n) == << n % 256, (n \div 256) % 256 >>
Le32(n) == << n % 256, (n \div 256) % 256, (n \div 65536) % 256, (n \div 16777216) % 256 >>
Fill(n, v) == [k \in 1..n |-> v]

\* A record of an archive.  name: the bytes of the entry name; method: 0
\* Stored, 8 Deflate, else unsupported; payload: the bytes before compression;
\* lextra, cextra, ccomment: the lengths of the local extra field, the central
\* extra field and the central comment; sizeAdd: what the central compSize
\* field exceeds the data length by; off: where the central localOffset field
\* points ("header", "tail": 30 bytes before the end, "beyond": the end);
\* rot: the compressed stream is damaged.
ZipRecord(name, method, payload, lextra, cextra, ccomment, sizeAdd, off, rot) ==
  [name |-> name, method |-> method, payload |-> payload, lextra |-> lextra,
   cextra |-> cextra, ccomment |-> ccomment, sizeAdd |-> sizeAdd, off |-> off,
   rot |-> rot]

\* The raw deflate stream of a payload: one final stored block.
Deflated(payload, rot) ==
  <<1>> \o Le16(Len(payload))
        \o (IF rot THEN Le16(Len(payload)) ELSE Le16(65535 - Len(payload)))
        \o payload

Stream(rec) == IF rec.method = 8 THEN Deflated(rec.payload, rec.rot) ELSE rec.payload

LocalHeader(rec) ==
  <<80, 75, 3, 4>> \o Le16(20) \o Le16(0) \o Le16(rec.method) \o Fill(4, 0)
    \o Fill(4, 0) \o Le32(Len(Stream(rec))) \o Le32(Len(rec.payload))
    \o Le16(Len(rec.name)) \o Le16(rec.lextra)
    \o rec.name \o Fill(rec.lextra, 9) \o Stream(rec)

CentralRecord(rec, localOffset) ==
  <<80, 75, 1, 2>> \o Le16(20) \o Le16(20) \o Le16(0) \o Le16(rec.method)
    \o Fill(4, 0) \o Fill(4, 0)
    \o Le32(Len(Stream(rec)) + rec.sizeAdd) \o Le32(Len(rec.payload))
    \o Le16(Len(rec.name)) \o Le16(rec.cextra) \o Le16(rec.ccomment)
    \o Le16(0) \o Le16(0) \o Le32(0) \o Le32(localOffset)
    \o rec.name \o Fill(rec.cextra, 9) \o Fill(rec.ccomment, 33)

RECURSIVE Locals(_)
Locals(recs) ==
  IF recs = <<>> THEN <<>> ELSE LocalHeader(Head(recs)) \o Locals(Tail(recs))

\* The length of the archive comment of each mode.
CommentLen(mode) == IF mode = "comment" THEN 3 ELSE 0

RECURSIVE CentralLen(_)
CentralLen(recs) ==
  IF recs = <<>> THEN 0
  ELSE 46 + Len(Head(recs).name) + Head(recs).cextra + Head(recs).ccomment
       + CentralLen(Tail(recs))

ArchiveLen(recs, mode) == Len(Locals(recs)) + CentralLen(recs) + 22 + CommentLen(mode)

\* The value of the central localOffset field of record i.
LocalOffsetOf(recs, mode, i) ==
  IF recs[i].off = "header" THEN Len(Locals(SubSeq(recs, 1, i - 1)))
  ELSE IF recs[i].off = "tail" THEN ArchiveLen(recs, mode) - 30
  ELSE ArchiveLen(recs, mode)

RECURSIVE Centrals(_, _, _)
Centrals(recs, mode, i) ==
  IF i > Len(recs) THEN <<>>
  ELSE CentralRecord(recs[i], LocalOffsetOf(recs, mode, i)) \o Centrals(recs, mode, i + 1)

\* The end-of-central-directory record; mode "nosig" writes no signature.
EndRecord(recs, mode) ==
  (IF mode = "nosig" THEN Fill(4, 0) ELSE <<80, 75, 5, 6>>)
    \o Le16(0) \o Le16(0) \o Le16(Len(recs)) \o Le16(Len(recs))
    \o Le32(CentralLen(recs)) \o Le32(Len(Locals(recs))) \o Le16(CommentLen(mode))
    \o Fill(CommentLen(mode), 33)

ArchiveBytes(recs, mode) == Locals(recs) \o Centrals(recs, mode, 1) \o EndRecord(recs, mode)

Buffer(seq) == [len |-> Len(seq), bytes |-> [o \in 0..(Len(seq) - 1) |-> seq[o + 1]]]

\* A buffer of zero bytes but for end-of-central-directory signatures at the
\* offsets given.
SparseBuffer(len, sigs) ==
  [len |-> len,
   bytes |-> [o \in UNION {s..(s + 3) : s \in sigs} |->
                IF \E s \in sigs : o = s THEN 80
                ELSE IF \E s \in sigs : o = s + 1 THEN 75
                ELSE IF \E s \in sigs : o = s + 2 THEN 5 ELSE 6]]

ZipRecords ==
  { ZipRecord(<<97>>, 0, <<1, 2, 3>>, 0, 0, 0, 0, "header", FALSE),
    ZipRecord(<<97, 98>>, 0, <<7>>, 2, 0, 1, 0, "header", FALSE),
    ZipRecord(<<99>>, 8, <<5, 6>>, 1, 2, 0, 0, "header", FALSE),
    ZipRecord(<<100>>, 8, <<9>>, 0, 0, 0, 0, "header", TRUE),
    ZipRecord(<<101>>, 0, <<4, 4>>, 0, 0, 0, 60000, "header", FALSE),
    ZipRecord(<<102>>, 0, <<8>>, 0, 0, 0, 0, "tail", FALSE),
    ZipRecord(<<103>>, 8, <<8>>, 0, 0, 0, 0, "beyond", FALSE),
    ZipRecord(<<104>>, 12, <<2, 2>>, 0, 1, 0, 0, "header", FALSE) }

RECURSIVE SeqsUpTo(_, _)
\* The sequences over S of length at most n.
SeqsUpTo(S, n) ==
  IF n = 0 THEN {<<>>}
  ELSE SeqsUpTo(S, n - 1) \cup {Append(q, x) : q \in {r \in SeqsUpTo(S, n - 1) : Len(r) = n - 1}, x \in S}

ArchiveModes == {"valid", "comment", "nosig"}

\* The sparse buffers: where the signatures are, relative to the end.
SparseCases ==
  { [len |-> BigLen, sigs |-> {0}],
    [len |-> BigLen, sigs |-> {0, BigLen - 22}],
    [len |-> BigLen, sigs |-> {BigLen - 10}],
    [len |-> BigLen, sigs |-> {4, BigLen - 10}],
    [len |-> BigLen, sigs |-> {BigLen - 22 - 65536 - 1}],
    [len |-> BigLen, sigs |-> {BigLen - 22 - 65536, BigLen - 1000}],
    [len |-> BigLen, sigs |-> {}],
    [len |-> 22, sigs |-> {0}],
    [len |-> 21, sigs |-> {0}] }

NoBuffer == [len |-> 0, bytes |-> [o \in {} |-> 0]]
NoArchive == [recs |-> <<>>, mode |-> "none"]

\* The zip reader not called.
InitZipIdle ==
  /\ buf = NoBuffer
  /\ arch = NoArchive
  /\ eocd = -1
  /\ zipEntries = <<>>
  /\ picked = 0
  /\ data = NoData

\* ------------------------------------------------------------ run inputs
\* An input met by a run: an entry of a jar, the end of a jar's entries and
\* what main() does next, a loose file, or the end of the loose files.  The
\* inputs of a first run are what a re-run over unchanged archives meets.
NoEntry == Entry(Name(<<>>, "", ""), FALSE, NoDoc)
NoLoose == LooseFile("", <<>>)
RunInput(kind, e, f, to) == [kind |-> kind, e |-> e, f |-> f, to |-> to]

\* The step meets input `item`: any input in a first run, the next input of
\* the first run in a re-run.
Meets(item) ==
  /\ run = 1 \/ (replay # <<>> /\ Head(replay) = item)
  /\ log' = IF recording /\ run = 1 THEN Append(log, item) ELSE log
  /\ replay' = IF run = 2 THEN Tail(replay) ELSE replay
  /\ UNCHANGED <<recording, run, manifest1>>

\* A single run whose inputs are not logged.
InitRunOnce ==
  /\ recording = FALSE
  /\ run = 1
  /\ log = <<>>
  /\ replay = <<>>
  /\ manifest1 = Empty

\* ===================================================================== actions
InitExtract ==
  /\ jar = 1
  /\ scanned = 0
  /\ files \in PriorFiles
  /\ itemPaths = Empty
  /\ blockPaths = Empty
  /\ blockModels = Empty
  /\ modelOrder = <<>>
  /\ geoModels = Empty
  /\ geoOrder = <<>>
  /\ manifest = Empty
  /\ loose = 0
  /\ regLog = {}
  /\ docLog = {}

InitAtlasIdle ==
  /\ iconPaths = <<>>
  /\ idx = 0
  /\ failed = 0
  /\ composites = {}
  /\ canvas = {}
  /\ flushes = <<>>
  /\ icons = Empty
  /\ atlasManifest = NoManifest

\* findIconPath not called.
InitPureIdle ==
  /\ query = NoQuery
  /\ found = NotCalled
  /\ InitZipIdle

\* The extractor after the setup of main(): no jar scanned yet.
Init ==
  /\ pc = "mods"
  /\ InitExtract
  /\ InitAtlasIdle
  /\ InitRunOnce
  /\ InitPureIdle

\* The body of the entry loop of a mod jar, for one entry e of jar `jar`.
ScanEntry ==
  /\ pc = "mods"
  /\ scanned < MaxEntries
  /\ \E e \in Entries :
       /\ Meets(RunInput("entry", e, NoLoose, ""))
       /\ LET m  == MatchTexture(e.name)
              mj == MatchModel(e.name)
              me == MatchEntity(e.name)
              mg == MatchGeo(e.name) IN
          IF m.hit
          THEN /\ TextureStep(e, m, jar)
               /\ UNCHANGED <<blockModels, modelOrder, geoModels, geoOrder, docLog>>
          ELSE /\ IF mj.hit
                  THEN ModelStep(e, mj, ModTopNames, ModSideNames, ModFrontNames)
                  ELSE UNCHANGED <<blockModels, modelOrder>>
               /\ IF me.hit
                  THEN EntityStep(e, me)
                  ELSE UNCHANGED <<files, blockPaths>>
               /\ IF mg.hit
                  THEN GeoStep(e, mg)
                  ELSE UNCHANGED <<geoModels, geoOrder>>
               /\ docLog' = docLog
                    \cup ModelEvents(e, mj, ModTopNames, ModSideNames, ModFrontNames)
                    \cup GeoEvents(e, mg)
               /\ UNCHANGED <<itemPaths, regLog>>
  /\ scanned' = scanned + 1
  /\ UNCHANGED <<pc, jar, manifest, loose, atlasVars, pureVars>>

\* The end of a jar's entries: the next jar, or after the last one the
\* vanilla jar when findVanillaJar found it, else the resolution.
NextJar ==
  /\ pc = "mods"
  /\ IF jar < NumArchives
     THEN jar' = jar + 1 /\ pc' = pc
     ELSE jar' = jar /\ pc' \in {"vanilla", "resolve"}
  /\ Meets(RunInput("end", NoEntry, NoLoose, pc'))
  /\ UNCHANGED <<scanned, files, itemPaths, blockPaths, blockModels, modelOrder,
                 geoModels, geoOrder, manifest, loose, regLog, docLog, atlasVars, pureVars>>

\* The body of the entry loop of the vanilla jar.
ScanVanillaEntry ==
  /\ pc = "vanilla"
  /\ scanned < MaxEntries
  /\ \E e \in Entries :
       /\ Meets(RunInput("entry", e, NoLoose, ""))
       /\ LET m  == MatchVanillaTexture(e.name)
              mj == MatchVanillaModel(e.name) IN
          IF m.hit
          THEN /\ TextureStep(e, m, NumArchives + 1)
               /\ UNCHANGED <<blockModels, modelOrder, docLog>>
          ELSE /\ IF mj.hit
                  THEN ModelStep(e, mj, VanillaTopNames, VanillaSideNames, VanillaFrontNames)
                  ELSE UNCHANGED <<blockModels, modelOrder>>
               /\ docLog' = docLog
                    \cup ModelEvents(e, mj, VanillaTopNames, VanillaSideNames, VanillaFrontNames)
               /\ UNCHANGED <<files, itemPaths, blockPaths, regLog>>
  /\ scanned' = scanned + 1
  /\ UNCHANGED <<pc, jar, geoModels, geoOrder, manifest, loose, atlasVars, pureVars>>

\* The end of the vanilla jar's entries.
FinishVanilla ==
  /\ pc = "vanilla"
  /\ pc' = "resolve"
  /\ Meets(RunInput("end", NoEntry, NoLoose, "resolve"))
  /\ UNCHANGED <<extractVars, atlasVars, pureVars>>

\* The block model resolution loop.
ResolveModels ==
  /\ pc = "resolve"
  /\ blockPaths' = ResolveAll(blockPaths, modelOrder)
  /\ pc' = "geo"
  /\ UNCHANGED <<jar, scanned, files, itemPaths, blockModels, modelOrder,
                 geoModels, geoOrder, manifest, loose, regLog, docLog, atlasVars, rerunVars, pureVars>>

\* The geo model loop.
ResolveGeo ==
  /\ pc = "geo"
  /\ blockPaths' = GeoAll(blockPaths, geoOrder)
  /\ pc' = "static"
  /\ UNCHANGED <<jar, scanned, files, itemPaths, blockModels, modelOrder,
                 geoModels, geoOrder, manifest, loose, regLog, docLog, atlasVars, rerunVars, pureVars>>

\* The body of walkDir for one loose png file: copy it unless it is there,
\* and register its three keys in the item store.
ScanStatic ==
  /\ pc = "static"
  /\ loose < MaxLoose
  /\ \E f \in LooseFiles :
       /\ Meets(RunInput("loose", NoEntry, f, ""))
       /\ files' = files \cup {<<"icons", f.ns, "textures">> \o f.rel}
       /\ itemPaths' = RegisterLoose(itemPaths, f)
  /\ loose' = loose + 1
  /\ UNCHANGED <<pc, jar, scanned, blockPaths, blockModels, modelOrder,
                 geoModels, geoOrder, manifest, regLog, docLog, atlasVars, pureVars>>

\* The manifest merge and the write of icons_manifest.json.
Merge ==
  /\ pc = "static"
  /\ manifest' = Assign(blockPaths, itemPaths)
  /\ pc' = "done"
  /\ Meets(RunInput("end", NoEntry, NoLoose, "done"))
  /\ UNCHANGED <<jar, scanned, files, itemPaths, blockPaths, blockModels,
                 modelOrder, geoModels, geoOrder, loose, regLog, docLog, atlasVars, pureVars>>

Next ==
  \/ ScanEntry
  \/ NextJar
  \/ ScanVanillaEntry
  \/ FinishVanilla
  \/ ResolveModels
  \/ ResolveGeo
  \/ ScanStatic
  \/ Merge

Spec == Init /\ [][Next]_vars

\* ------------------------------------------------------------------ re-run
\* A first run into an empty output directory, its inputs logged, to be
\* followed by a second run.
RerunInit ==
  /\ pc = "mods"
  /\ InitExtract
  /\ files = {}
  /\ InitAtlasIdle
  /\ InitPureIdle
  /\ recording = TRUE
  /\ run = 1
  /\ log = <<>>
  /\ replay = <<>>
  /\ manifest1 = Empty

\* main() started again on the same archives and loose files: the stores are
\* new, the output directory is as the first run left it.
Restart ==
  /\ pc = "done"
  /\ recording
  /\ run = 1
  /\ run' = 2
  /\ replay' = log
  /\ manifest1' = manifest
  /\ pc' = "mods"
  /\ jar' = 1
  /\ scanned' = 0
  /\ itemPaths' = Empty
  /\ blockPaths' = Empty
  /\ blockModels' = Empty
  /\ modelOrder' = <<>>
  /\ geoModels' = Empty
  /\ geoOrder' = <<>>
  /\ manifest' = Empty
  /\ loose' = 0
  /\ regLog' = {}
  /\ docLog' = {}
  /\ UNCHANGED <<files, recording, log, atlasVars, pureVars>>

RerunNext ==
  \/ Next
  \/ Restart

RerunSpec == RerunInit /\ [][RerunNext]_vars

\* ------------------------------------------------------------- buildAtlas
\* buildAtlas(iconPaths) at the start of its loop; the ids of the list are
\* distinct (main builds the list from a Set) and named by their positions.
AtlasInit ==
  /\ pc = "atlas"
  /\ InitExtract
  /\ files = {}
  /\ \E n \in AtlasLens : iconPaths = [k \in 1..n |-> k]
  /\ idx = 0
  /\ failed = 0
  /\ composites = {}
  /\ canvas = {}
  /\ flushes = <<>>
  /\ icons = Empty
  /\ atlasManifest = NoManifest
  /\ InitRunOnce
  /\ InitPureIdle

\* PlaceTile without `composites.length = 0` after the flush.
PlaceTileNoClear ==
  /\ pc = "atlas"
  /\ idx < Len(iconPaths)
  /\ LET id   == iconPaths[idx + 1]
         left == TilePos(idx).x
         top  == TilePos(idx).y
         pushed == composites \cup {[id |-> id, left |-> left, top |-> top]} IN
     /\ icons' = Put(icons, id, [x |-> left, y |-> top])
     /\ IF Cardinality(pushed) >= BATCH
        THEN /\ canvas' = canvas \cup pushed
             /\ flushes' = Append(flushes, Cardinality(pushed))
             /\ composites' = pushed
        ELSE /\ canvas' = canvas
             /\ flushes' = flushes
             /\ composites' = pushed
  /\ idx' = idx + 1
  /\ UNCHANGED <<pc, extractVars, rerunVars, pureVars, iconPaths, failed, atlasManifest>>

\* One iteration of the packing loop in which the image loads: push the tile,
\* record the position, flush the batch when it reaches BATCH.
PlaceTile ==
  /\ pc = "atlas"
  /\ idx < Len(iconPaths)
  /\ LET id   == iconPaths[idx + 1]
         left == TilePos(idx).x
         top  == TilePos(idx).y
         pushed == composites \cup {[id |-> id, left |-> left, top |-> top]} IN
     /\ icons' = Put(icons, id, [x |-> left, y |-> top])
     /\ IF Cardinality(pushed) >= BATCH
        THEN /\ canvas' = canvas \cup pushed
             /\ flushes' = Append(flushes, Cardinality(pushed))
             /\ composites' = {}
        ELSE /\ canvas' = canvas
             /\ flushes' = flushes
             /\ composites' = pushed
  /\ idx' = idx + 1
  /\ UNCHANGED <<pc, extractVars, rerunVars, pureVars, iconPaths, failed, atlasManifest>>

\* A failed load that still records the id at its position.
SkipTileRecorded ==
  /\ pc = "atlas"
  /\ idx < Len(iconPaths)
  /\ failed < MaxFail
  /\ failed' = failed + 1
  /\ idx' = idx + 1
  /\ icons' = Put(icons, iconPaths[idx + 1], [x |-> TilePos(idx).x, y |-> TilePos(idx).y])
  /\ UNCHANGED <<pc, extractVars, rerunVars, pureVars, iconPaths, composites, canvas, flushes, atlasManifest>>

\* One iteration in which sharp throws: `continue`.
SkipTile ==
  /\ pc = "atlas"
  /\ idx < Len(iconPaths)
  /\ failed < MaxFail
  /\ failed' = failed + 1
  /\ idx' = idx + 1
  /\ UNCHANGED <<pc, extractVars, rerunVars, pureVars, iconPaths, composites, canvas, flushes, icons, atlasManifest>>

\* After the loop: the last flush and the write of icons_atlas.json.
WriteAtlas ==
  /\ pc = "atlas"
  /\ idx = Len(iconPaths)
  /\ canvas' = canvas \cup composites
  /\ flushes' = IF Cardinality(composites) > 0
                THEN Append(flushes, Cardinality(composites)) ELSE flushes
  /\ atlasManifest' = [tile |-> TILE, cols |-> COLS,
                       rows |-> Rows(Len(iconPaths)),
                       width |-> COLS * TILE,
                       height |-> Rows(Len(iconPaths)) * TILE,
                       icons |-> icons, written |-> TRUE]
  /\ pc' = "atlas_done"
  /\ UNCHANGED <<extractVars, rerunVars, pureVars, iconPaths, idx, failed, composites, icons>>

AtlasNext ==
  \/ PlaceTile
  \/ SkipTile
  \/ WriteAtlas

AtlasSpec == AtlasInit /\ [][AtlasNext]_vars

\* buildAtlas on a list about as long as a batch, after the first
\* BATCH - BatchLead iterations of its loop, every one of which loaded its
\* image: the tiles pushed so far are pending, nothing was flushed yet.
BatchInit ==
  /\ pc = "atlas"
  /\ InitExtract
  /\ files = {}
  /\ \E n \in BatchLens : iconPaths = [k \in 1..n |-> k]
  /\ idx = BATCH - BatchLead
  /\ failed = 0
  /\ composites = FirstTiles(idx)
  /\ canvas = {}
  /\ flushes = <<>>
  /\ icons = [id \in 1..idx |-> [x |-> TilePos(id - 1).x, y |-> TilePos(id - 1).y]]
  /\ atlasManifest = NoManifest
  /\ InitRunOnce
  /\ InitPureIdle

BatchSpec == BatchInit /\ [][AtlasNext]_vars

\* ------------------------------------------------------------ findIconPath
\* A call findIconPath(id, manifest) against some contents of the disk.
LookupInit ==
  /\ pc = "lookup"
  /\ InitExtract
  /\ files = {}
  /\ InitAtlasIdle
  /\ InitRunOnce
  /\ InitZipIdle
  /\ \E id \in QueryIds, keys \in SUBSET DOMAIN QueryEntries :
       \E disk \in SUBSET {QueryEntries[k] : k \in DOMAIN QueryEntries} :
         query = [id |-> id, manifest |-> [k \in keys |-> QueryEntries[k]], disk |-> disk]
  /\ found = NotCalled

Lookup ==
  /\ pc = "lookup"
  /\ found' = Returned(findIconPath(query.id, query.manifest, query.disk))
  /\ pc' = "lookup_done"
  /\ UNCHANGED <<extractVars, atlasVars, rerunVars, query, zipVars>>

LookupNext == Lookup

LookupSpec == LookupInit /\ [][LookupNext]_vars

\* ----------------------------------------------------------- the zip reader
\* A jar read into a buffer, before parseZip.
ZipInit ==
  /\ pc = "zip"
  /\ InitExtract
  /\ files = {}
  /\ InitAtlasIdle
  /\ InitRunOnce
  /\ query = NoQuery
  /\ found = NotCalled
  /\ \/ \E recs \in SeqsUpTo(ZipRecords, MaxRecords), mode \in ArchiveModes :
          /\ buf = Buffer(ArchiveBytes(recs, mode))
          /\ arch = [recs |-> recs, mode |-> mode]
     \/ \E c \in SparseCases :
          /\ buf = SparseBuffer(c.len, c.sigs)
          /\ arch = [recs |-> <<>>, mode |-> "sparse"]
  /\ eocd = -1
  /\ zipEntries = <<>>
  /\ picked = 0
  /\ data = NoData

\* const entries = parseZip(buf)
ParseZip ==
  /\ pc = "zip"
  /\ eocd' = findEOCD(buf)
  /\ zipEntries' = parseZip(buf)
  /\ pc' = "zip_parsed"
  /\ UNCHANGED <<extractVars, atlasVars, rerunVars, query, found, buf, arch, picked, data>>

\* const data = extractEntry(buf, entry), for one of the entries
ExtractEntry ==
  /\ pc = "zip_parsed"
  /\ \E i \in 1..Len(zipEntries) :
       /\ picked' = i
       /\ data' = extractEntry(buf, zipEntries[i])
  /\ pc' = "zip_extracted"
  /\ UNCHANGED <<extractVars, atlasVars, rerunVars, query, found, buf, arch, eocd, zipEntries>>

ZipNext ==
  \/ ParseZip
  \/ ExtractEntry

ZipSpec == ZipInit /\ [][ZipNext]_vars

\* ====================================================================== claims
\* The store a direct texture of this category registers into.
StoreOf(item) == IF item THEN itemPaths ELSE blockPaths

\* A url whose category segment is "entity": a file written by the entity branch.
IsEntityUrl(url) == Len(url) >= 3 /\ url[3] = "entity"

\* Some direct (item/block) texture reached the registration of this key.
HasDirect(key) == \E ev \in regLog : ev.key = key

Variants == {"#top", "#side", "#front"}

\* C1: first writer wins across archives.  When a direct texture of an
\* earlier-scanned jar registered a key in a category store, and a later jar
\* provides a direct texture for the same key in the same store, the store's
\* value for the key is the url registered from the earlier jar.
FirstWriterWins ==
  \A e1 \in regLog : \A e2 \in regLog :
    (e1.jar < e2.jar /\ e1.item = e2.item /\ e1.key = e2.key /\ e1.absent)
      => /\ e1.key \in DOMAIN StoreOf(e1.item)
         /\ StoreOf(e1.item)[e1.key] = e1.url

\* C1 witness: two jars registered different urls for one key of one store,
\* and the run is over.
FirstWriterWinsWitness ==
  /\ pc = "done"
  /\ \E e1 \in regLog : \E e2 \in regLog :
       /\ e1.jar < e2.jar /\ e1.item = e2.item /\ e1.key = e2.key
       /\ e1.absent /\ e1.url # e2.url

\* C2: in the canonical manifest no key whose value is an entity texture is
\* a key for which some scanned archive registered an item or block texture.
EntityNeverShadows ==
  pc = "done" =>
    \A k \in DOMAIN manifest : IsEntityUrl(manifest[k]) => ~HasDirect(k)

\* C3: item over block.  Every key present in both stores at merge time has
\* in the canonical manifest the item store's url.
ItemOverBlock ==
  pc = "done" =>
    \A k \in DOMAIN itemPaths \cap DOMAIN blockPaths :
      k \in DOMAIN manifest /\ manifest[k] = itemPaths[k]

\* C3 witness: a merged key that the two stores map to different urls.
ItemOverBlockWitness ==
  /\ pc = "done"
  /\ \E k \in DOMAIN itemPaths \cap DOMAIN blockPaths : itemPaths[k] # blockPaths[k]

\* C4: manifest completeness.  The manifest's keys are the union of the two
\* stores' keys, and a key of the block store alone keeps the block store's
\* value.
ManifestComplete ==
  pc = "done" =>
    /\ DOMAIN manifest = DOMAIN itemPaths \cup DOMAIN blockPaths
    /\ \A k \in DOMAIN blockPaths \ DOMAIN itemPaths : manifest[k] = blockPaths[k]

\* C4 witness: a merge with a variant-suffixed key and a bare key in the block
\* store alone, and a key in the item store alone.
ManifestCompleteWitness ==
  /\ pc = "done"
  /\ \E key \in DOMAIN blockModels : \E v \in Variants :
       /\ (key \o v) \in DOMAIN blockPaths \ DOMAIN itemPaths
       /\ key \in DOMAIN blockPaths \ DOMAIN itemPaths
  /\ DOMAIN itemPaths \ DOMAIN blockPaths # {}

\* The files resolveTexRef looks for, for a reference with a colon.
Candidates(ref) ==
  IF ref.t = "ref"
  THEN {<<"icons", ref.ns>> \o ref.path, <<"icons", ref.ns, "block", Last(ref.path)>>}
  ELSE {}

\* The face's reference has a candidate file on disk.
FaceExists(ref) == Candidates(ref) \cap files # {}

\* The face of a recorded model that a variant suffix names.
FaceOf(faces, v) ==
  IF v = "#top" THEN faces.top ELSE IF v = "#side" THEN faces.side ELSE faces.front

\* The parsed mapping holds a `side` reference with a colon and nothing else.
SideOnly(tex) == Len(tex) = 1 /\ tex[1][1] = "side" /\ tex[1][2].t = "ref"

\* The case of C5 before the resolution loop: a recorded model whose mapping
\* holds only `side`, resolving to an existing file, for a key in no store.
SideOnlyCase(key) ==
  /\ SideOnly(blockModels[key].tex)
  /\ FaceExists(blockModels[key].tex[1][2])
  /\ key \notin DOMAIN itemPaths
  /\ key \notin DOMAIN blockPaths

\* C5 as claimed: in the side-only case the resolution writes the bare key and
\* the #side key with one url, and neither a #top nor a #front key.
SideOnlyNoTopFront ==
  [][pc = "resolve" =>
       \A key \in DOMAIN blockModels :
         SideOnlyCase(key) =>
           /\ key \in DOMAIN blockPaths'
           /\ (key \o "#side") \in DOMAIN blockPaths'
           /\ blockPaths'[key] = blockPaths'[key \o "#side"]
           /\ (key \o "#top") \notin DOMAIN blockPaths'
           /\ (key \o "#front") \notin DOMAIN blockPaths']_vars

\* C5 amended: in the side-only case the resolution writes the bare key and
\* the #top, #side and #front keys, all four with one url.
SideOnlyAllFaces ==
  [][pc = "resolve" =>
       \A key \in DOMAIN blockModels :
         SideOnlyCase(key) =>
           /\ {key, key \o "#top", key \o "#side", key \o "#front"}
                \subseteq DOMAIN blockPaths'
           /\ blockPaths'[key] = blockPaths'[key \o "#side"]
           /\ blockPaths'[key \o "#top"] = blockPaths'[key \o "#side"]
           /\ blockPaths'[key \o "#front"] = blockPaths'[key \o "#side"]]_vars

\* C5 witness: the resolution has run on a side-only model of a key with no
\* texture of its own, and wrote its #side key.
SideOnlyWitness ==
  /\ pc = "geo"
  /\ \E key \in DOMAIN blockModels :
       /\ SideOnly(blockModels[key].tex)
       /\ ~HasDirect(key)
       /\ (key \o "#side") \in DOMAIN blockPaths
       /\ blockPaths[key] = blockPaths[key \o "#side"]

\* C6: the resolution writes a variant key only when that face's reference has
\* a candidate file on disk, and changes no value that a store held before it.
ResolverKeepsDirect ==
  [][pc = "resolve" =>
       /\ \A key \in DOMAIN blockModels : \A v \in Variants :
            (key \o v) \in DOMAIN blockPaths' \ DOMAIN blockPaths
              => FaceExists(FaceOf(blockModels[key], v))
       /\ \A k \in DOMAIN blockPaths :
            k \in DOMAIN blockPaths' /\ blockPaths'[k] = blockPaths[k]
       /\ itemPaths' = itemPaths]_vars

\* C6 witness: after the resolution a key keeps the url its direct block
\* texture registered, has a variant key, and another of its faces did not
\* resolve.
ResolverKeepsDirectWitness ==
  /\ pc = "geo"
  /\ \E key \in DOMAIN blockModels :
       /\ \E ev \in regLog : ev.key = key /\ ~ev.item /\ ev.absent
                             /\ blockPaths[key] = ev.url
       /\ \E v \in Variants : (key \o v) \in DOMAIN blockPaths
       /\ \E v \in Variants : (key \o v) \notin DOMAIN blockPaths

HeadUvOnlyForEntity ==
  \A key \in DOMAIN geoModels :
    (key \o "#head_uv") \in DOMAIN blockPaths =>
      /\ key \in DOMAIN blockPaths
      /\ IsEntityUrl(blockPaths[key])
      /\ pc = "done" => manifest[key] = blockPaths[key]

\* The least r with r * cols >= n.
IsCeil(r, n, cols) == r * cols >= n /\ (r - 1) * cols < n

\* The loop indices whose image was placed (the ids are the positions + 1).
Placed == {i \in 0..(idx - 1) : iconPaths[i + 1] \in DOMAIN icons}

\* C9: atlas grid law.  Every index i of the input list whose image was placed
\* has its id recorded at pixel offset ((i mod 64) * 16, floor(i / 64) * 16),
\* in the loop's manifest and in the emitted atlas manifest.
AtlasGridLaw ==
  /\ \A i \in Placed :
       /\ icons[iconPaths[i + 1]].x = (i % 64) * 16
       /\ icons[iconPaths[i + 1]].y = (i \div 64) * 16
  /\ atlasManifest.written => atlasManifest.icons = icons

\* C9 witness: an emitted manifest of a run in which an image failed to load
\* and a later image was placed in the second row.
AtlasGridLawWitness ==
  /\ atlasManifest.written
  /\ failed > 0
  /\ \E i \in Placed : i >= COLS /\ atlasManifest.icons[iconPaths[i + 1]].y = TILE

\* C10 as claimed: in the emitted manifest rows is the ceiling of the number of
\* entries of icons over cols, width = cols * tile and height = rows * tile.
RowsFromPacked ==
  atlasManifest.written =>
    /\ IsCeil(atlasManifest.rows, Cardinality(DOMAIN atlasManifest.icons),
              atlasManifest.cols)
    /\ atlasManifest.width = atlasManifest.cols * atlasManifest.tile
    /\ atlasManifest.height = atlasManifest.rows * atlasManifest.tile

\* C10 amended: rows is the ceiling of the length of the input list over
\* cols, width = cols * tile and height = rows * tile.
RowsFromInput ==
  atlasManifest.written =>
    /\ IsCeil(atlasManifest.rows, Len(iconPaths), atlasManifest.cols)
    /\ atlasManifest.cols = 64 /\ atlasManifest.tile = 16
    /\ atlasManifest.width = atlasManifest.cols * atlasManifest.tile
    /\ atlasManifest.height = atlasManifest.rows * atlasManifest.tile

\* C10 witness: an emitted manifest whose rows exceed what its icons need: an
\* image failed to load and the rest fits one row less.
RowsFromInputWitness ==
  /\ atlasManifest.written
  /\ failed > 0
  /\ ~IsCeil(atlasManifest.rows, Cardinality(DOMAIN atlasManifest.icons),
             atlasManifest.cols)

\* The tiles pushed so far: the pending batch and the flushed ones.
Tiles == composites \cup canvas

\* The grid slot of a tile: row * cols + col.
Slot(t) == (t.top \div TILE) * COLS + (t.left \div TILE)

\* C11: skip on load failure.  An image that fails to load contributes no tile
\* and no manifest entry: the ids of icons are exactly the ids of the tiles
\* pushed, one for each index passed that did not fail.  Every tile, whether
\* after a failure or not, sits where it would sit had no image failed: at the
\* position of its own index in the input list.  The emitted manifest's icons
\* are exactly the ids of the tiles composited.
SkipContributesNothing ==
  /\ DOMAIN icons = {t.id : t \in Tiles}
  /\ Cardinality(Tiles) = idx - failed
  /\ Cardinality(DOMAIN icons) = idx - failed
  /\ \A t \in Tiles :
       /\ t.left = ((t.id - 1) % COLS) * TILE
       /\ t.top = ((t.id - 1) \div COLS) * TILE
       /\ icons[t.id] = [x |-> t.left, y |-> t.top]
  /\ atlasManifest.written =>
       DOMAIN atlasManifest.icons = {t.id : t \in canvas}

\* C11 witness: an emitted manifest of a run in which an image failed to load
\* and the images after it were placed: the failed id is not in icons, a
\* later id is.
SkipContributesNothingWitness ==
  /\ atlasManifest.written
  /\ \E i \in 0..(Len(iconPaths) - 1) :
       /\ iconPaths[i + 1] \notin DOMAIN atlasManifest.icons
       /\ i + 1 < Len(iconPaths)
       /\ \A j \in (i + 1)..(Len(iconPaths) - 1) :
            /\ iconPaths[j + 1] \in DOMAIN atlasManifest.icons
            /\ atlasManifest.icons[iconPaths[j + 1]] = TilePos(j)

\* C12 as claimed: the placed tiles occupy the consecutive slots 0..k-1, k
\* the number of tiles placed.
GapFreePacking ==
  {Slot(t) : t \in Tiles} = 0..(Cardinality(Tiles) - 1)

\* C12 amended: the slot of a placed tile is its index in the input list, so
\* the occupied slots are the indices placed, all distinct and below the
\* index reached; the slot of an image that failed to load stays empty.
SlotIsInputIndex ==
  /\ \A t \in Tiles : Slot(t) = t.id - 1
  /\ {Slot(t) : t \in Tiles} = Placed
  /\ Cardinality({Slot(t) : t \in Tiles}) = idx - failed

\* C12 witness: after the loop a slot below the last occupied one is empty.
SlotIsInputIndexWitness ==
  /\ pc = "atlas_done"
  /\ \E t \in canvas : \E s \in 0..(Slot(t) - 1) :
       \A u \in canvas : Slot(u) # s

RECURSIVE FirstListed(_, _, _)
\* The path of the first of the keys that the manifest maps to a file on disk.
FirstListed(keys, man, disk) ==
  IF keys = <<>> THEN NoUrl
  ELSE IF Head(keys) \in DOMAIN man /\ man[Head(keys)] \in disk
       THEN man[Head(keys)]
       ELSE FirstListed(Tail(keys), man, disk)

\* C13: icon lookup variant order.  The lookup returns not-found for an id
\* without a colon; otherwise it returns the path of the first of the exact
\* id, "{ns}:{basename}" and "{ns}:{basename}_item" that the manifest maps to
\* a file on disk, and not-found when none does.
LookupVariantOrder ==
  found.called =>
    found.path =
      IF ~query.id.colon THEN NoUrl
      ELSE FirstListed(<< IdString(query.id),
                          query.id.ns \o ":" \o Last(query.id.segs),
                          query.id.ns \o ":" \o Last(query.id.segs) \o "_item" >>,
                       query.manifest, query.disk)

\* Every key of the store keeps its value in the next state.
Kept(store, storeNext) ==
  \A k \in DOMAIN store : k \in DOMAIN storeNext /\ storeNext[k] = store[k]

\* C15: insert-if-absent registration.  No step of a run changes the value of
\* a key already present in the item store, the block store, the block-model
\* map or the geo-model map: a registration of a present key leaves the store
\* as it is, so the value of a key is written at most once.
InsertIfAbsent ==
  [][ /\ Kept(itemPaths, itemPaths')
      /\ Kept(blockPaths, blockPaths')
      /\ Kept(blockModels, blockModels')
      /\ Kept(geoModels, geoModels') ]_vars

\* C15 witness: a finished run in which a direct texture reached the
\* registration of a key that was present, with a path other than the one the
\* store holds, and the store still holds the earlier path.
InsertIfAbsentWitness ==
  /\ pc = "done"
  /\ \E ev \in regLog :
       /\ ~ev.absent
       /\ ev.key \in DOMAIN StoreOf(ev.item)
       /\ StoreOf(ev.item)[ev.key] # ev.url

\* The keys a step adds to a store all hold paths of files on disk after it.
AddedOnDisk(store, storeNext, disk) ==
  \A k \in DOMAIN storeNext \ DOMAIN store : storeNext[k] \in disk

\* C20: container corruption is absorbed per entry.  A scan step registers a
\* key only for an entry whose file is on disk after the step, because it was
\* there or because the extraction succeeded: an entry whose extraction fails
\* registers no key and writes no file.
FailedEntrySkipped ==
  [][ (pc \in {"mods", "vanilla"}) =>
        (/\ AddedOnDisk(itemPaths, itemPaths', files')
         /\ AddedOnDisk(blockPaths, blockPaths', files')) ]_vars

\* C14: re-run idempotence.  A second run over the same archives and loose
\* files, started from the output directory the first run left, writes a
\* manifest with the same keys and the same values as the first.
RerunSameManifest ==
  (run = 2 /\ pc = "done") => manifest = manifest1

\* The archive was laid out with its end record in place.
Indexed == arch.mode \in {"valid", "comment"}

\* C16: central directory walk.  For a buffer with a valid index, parseZip
\* returns exactly the records of the central directory in directory order,
\* each with its name, compression method, compressed size and local header
\* offset as the directory holds them.
ParseZipExact ==
  (pc \in {"zip_parsed", "zip_extracted"} /\ Indexed) =>
    /\ Len(zipEntries) = Len(arch.recs)
    /\ \A i \in 1..Len(arch.recs) :
         /\ zipEntries[i].name = arch.recs[i].name
         /\ zipEntries[i].compression = arch.recs[i].method
         /\ zipEntries[i].compSize = Len(Stream(arch.recs[i])) + arch.recs[i].sizeAdd
         /\ zipEntries[i].localOffset = LocalOffsetOf(arch.recs, arch.mode, i)

\* C16 witness: a directory of two records, the first with a central comment
\* and a central extra length other than the local one, parsed.
ParseZipExactWitness ==
  /\ pc = "zip_parsed"
  /\ Indexed
  /\ Len(zipEntries) = 2
  /\ arch.recs[1].ccomment > 0
  /\ arch.recs[1].cextra # arch.recs[1].lextra
  /\ zipEntries[2].name = arch.recs[2].name

\* The record the picked entry was written from is a sound Stored or Deflate
\* record: its sizes and offset are true and its stream is undamaged.
Sound(rec) ==
  rec.sizeAdd = 0 /\ rec.off = "header" /\ ~rec.rot /\ rec.method \in {0, 8}

\* Where the data of record i starts, by the lengths of its local header.
DataStartOf(recs, i) ==
  Len(Locals(SubSeq(recs, 1, i - 1))) + 30 + Len(recs[i].name) + recs[i].lextra

\* C17: extraction round trip.  For a sound record of an indexed archive, a
\* Stored entry yields exactly the compSize bytes that follow its local
\* header, name and local extra field, and they are the bytes stored; a
\* Deflate entry yields the bytes that were compressed.
ExtractRoundTrip ==
  (pc = "zip_extracted" /\ Indexed /\ Sound(arch.recs[picked])) =>
    /\ data.ok
    /\ data.bytes = arch.recs[picked].payload
    /\ arch.recs[picked].method = 0 =>
         /\ Len(data.bytes) = zipEntries[picked].compSize
         /\ \A k \in 1..Len(data.bytes) :
              data.bytes[k] = At(buf, DataStartOf(arch.recs, picked) + k - 1)

\* C17 witness: a Stored entry extracted whose local extra field is longer
\* than its central one.
ExtractRoundTripWitness ==
  /\ pc = "zip_extracted"
  /\ Indexed
  /\ Sound(arch.recs[picked])
  /\ arch.recs[picked].method = 0
  /\ arch.recs[picked].lextra > arch.recs[picked].cextra
  /\ data.bytes = arch.recs[picked].payload

\* The local header of the entry, or its data range, is not wholly inside the
\* buffer.
OutOfRange(b, entry) ==
  \/ entry.localOffset + 30 > b.len
  \/ entry.localOffset + 30 + readUInt16LE(b, entry.localOffset + 26)
       + readUInt16LE(b, entry.localOffset + 28) + entry.compSize > b.len

\* C18: extraction fails closed.  For a Stored and for a Deflate entry alike,
\* extraction returns Failure when the local header or the data range lies
\* partly outside the buffer, and when the decompression fails.
ExtractFailsClosed ==
  (pc = "zip_extracted" /\ zipEntries[picked].compression \in {0, 8}) =>
    /\ OutOfRange(buf, zipEntries[picked]) => ~data.ok
    /\ (Indexed /\ arch.recs[picked].method = 8 /\ arch.recs[picked].rot) => ~data.ok

\* The greatest element of a non-empty set of offsets, or -1.
LastOf(S) == IF S = {} THEN -1 ELSE CHOOSE i \in S : \A j \in S : j <= i

\* C19 as claimed: the locator returns the signature occurrence closest to
\* the end among the offsets of the last 64KB + 22 bytes, and NotFound when
\* that window holds none; an occurrence before the window is not returned.
LocateInWindow ==
  pc \in {"zip_parsed", "zip_extracted"} =>
    eocd = LastOf({i \in DOMAIN buf.bytes :
                     /\ SigAt(buf, i, 5, 6)
                     /\ i <= buf.len - 22
                     /\ i >= buf.len - 22 - 65536})

\* C19 amended: the locator returns the signature occurrence closest to the
\* end among all the offsets at most len - 22, however far from the end, and
\* NotFound when there is none.
LocateLast ==
  pc \in {"zip_parsed", "zip_extracted"} =>
    eocd = LastOf({i \in DOMAIN buf.bytes : SigAt(buf, i, 5, 6) /\ i <= buf.len - 22})

\* C19 witness: a buffer longer than the window whose only signature lies
\* before the window, located.
LocateLastWitness ==
  /\ pc = "zip_parsed"
  /\ eocd >= 0
  /\ eocd < buf.len - 22 - 65536
  /\ SigAt(buf, eocd, 5, 6)

\* A url of a loose file's copy: icons/<ns>/textures/...
IsLooseUrl(url) == Len(url) >= 4 /\ url[3] = "textures"

\* The loose file behind the url lies under textures/item(s) when `item`,
\* under textures/block(s) otherwise.
SameCategory(item, url) ==
  IF item THEN url[4] \in {"item", "items"} ELSE url[4] \in {"block", "blocks"}

\* C21: loose assets merge under the archive rules.  At the end of a run, a
\* key that an archive texture provided does not hold the path of a loose
\* texture of the same category in the manifest; and every loose texture
\* copied has its literal key ns:textures/relpath in the manifest.
LooseUnderArchiveRules ==
  pc = "done" =>
    /\ \A ev \in regLog :
         (ev.absent /\ IsLooseUrl(manifest[ev.key])) =>
           ~SameCategory(ev.item, manifest[ev.key])
    /\ \A u \in files :
         IsLooseUrl(u) => McKey(u[2], SubSeq(u, 4, Len(u))) \in DOMAIN manifest

\* The manifest keys that only a descriptor of the identifier can produce.
DescriptorKeys(kind, key) ==
  IF kind = "model"
  THEN {key \o "#top", key \o "#side", key \o "#front"}
  ELSE {key \o "#head_uv"}

\* Some document in the history d gave the map a value for ev's identifier.
Supplied(d, ev) ==
  \E o \in d : o.kind = ev.kind /\ o.key = ev.key /\ o.took

\* C22: a descriptor whose parse fails is swallowed.  The step that meets it
\* changes neither descriptor map, neither catalog store nor the output
\* files, and the scan goes on with the next entry; and when the run ends,
\* an identifier whose documents were malformed and that no other document
\* supplied has no descriptor-derived key in the manifest.
MalformedSwallowed ==
  [][ /\ \A ev \in docLog' \ docLog :
           ev.malformed =>
             (/\ blockModels' = blockModels /\ modelOrder' = modelOrder
              /\ geoModels' = geoModels /\ geoOrder' = geoOrder
              /\ itemPaths' = itemPaths /\ blockPaths' = blockPaths
              /\ files' = files
              /\ pc' = pc /\ scanned' = scanned + 1)
      /\ (pc' = "done") =>
           (\A ev \in docLog' :
              (ev.malformed /\ ~Supplied(docLog', ev)) =>
                (DescriptorKeys(ev.kind, ev.key) \cap DOMAIN manifest' = {}))
    ]_vars

\* A finished run that met a malformed model descriptor whose identifier no
\* other document supplied, and that still produced manifest keys.
MalformedSwallowedWitness ==
  /\ pc = "done"
  /\ manifest # <<>>
  /\ \E ev \in docLog : ev.kind = "model" /\ ev.malformed /\ ~Supplied(docLog, ev)

RECURSIVE Sum(_)
Sum(q) == IF Len(q) = 0 THEN 0 ELSE Head(q) + Sum(Tail(q))

\* The ids of the images that loaded, among the first `idx` of the list.
Loaded == DOMAIN icons

\* C23: batched compositing.  After every iteration the pending batch holds
\* fewer than BATCH tiles; every flush made inside the loop was of exactly
\* BATCH tiles, and the flushed and the pending tiles together are the loaded
\* tiles, none twice; after the loop one more flush was made exactly when the
\* batch was non-empty, so that when the image is encoded every loaded tile
\* has been composited exactly once and the batch holds no uncomposited tile.
BatchedCompositing ==
  /\ Cardinality(composites) < BATCH
  /\ (pc = "atlas") =>
       (/\ \A i \in 1..Len(flushes) : flushes[i] = BATCH
        /\ Cardinality(canvas) = Sum(flushes)
        /\ canvas \cap composites = {}
        /\ {t.id : t \in canvas \cup composites} = Loaded
        /\ Cardinality(canvas) + Cardinality(composites) = Cardinality(Loaded))
  /\ (pc = "atlas_done") =>
       (/\ \A i \in 1..(Len(flushes) - 1) : flushes[i] = BATCH
        /\ (Len(flushes) > 0) => (flushes[Len(flushes)] \in 1..BATCH)
        /\ Sum(flushes) = Cardinality(Loaded)
        /\ {t.id : t \in canvas} = Loaded
        /\ Cardinality(canvas) = Cardinality(Loaded)
        /\ composites \subseteq canvas)

\* An encoded image that took a full batch inside the loop and a last flush
\* of the rest, one image of the list having failed to load.
BatchedCompositingWitness ==
  /\ pc = "atlas_done"
  /\ failed > 0
  /\ Len(flushes) = 2
  /\ flushes[1] = BATCH
  /\ composites # {}

\* The order of the roles the top face is said to be looked up in.
StatedTopRoles == <<"top", "top_face", "up", "cap", "end", "all">>

\* The roles named by some face's list.
NamedRoles ==
  {"top", "top_face", "up", "cap", "end", "all", "side", "side_face", "texture",
   "wall", "front", "face", "front_face", "south", "north"}

\* No named role of the mapping holds a non-alias string.
NoNamedRole(tex) == \A r \in NamedRoles : ~Usable(TexGet(tex, r))

\* C24: face selection, the same for every archive.  For every recorded
\* model the top face is the first non-alias string among the roles top,
\* top_face, up, cap, end, all when there is one; no face is an alias; and
\* when no named role holds a non-alias string every face is the first
\* non-alias string of the textures mapping.
FaceSelection ==
  \A key \in DOMAIN blockModels :
    LET faces == blockModels[key] IN
    /\ Usable(faces.top) /\ Usable(faces.side) /\ Usable(faces.front)
    /\ (resolve(faces.tex, StatedTopRoles) # Null) =>
         (faces.top = resolve(faces.tex, StatedTopRoles))
    /\ NoNamedRole(faces.tex) =>
         (/\ faces.top = FirstValue(faces.tex)
          /\ faces.side = FirstValue(faces.tex)
          /\ faces.front = FirstValue(faces.tex))

\* Two documents of one identifier, a met before b.
Earlier(a, b) == a.kind = b.kind /\ a.key = b.key /\ a.n < b.n

\* C25 as stated: once a first matching document of an identifier has been
\* seen, no later document of that identifier is parsed or contributes.
FirstDocumentOnly ==
  \A a \in docLog, b \in docLog : Earlier(a, b) => (~b.read /\ ~b.took)

\* The map of a kind of descriptor.
MapOf(kind) == IF kind = "model" THEN blockModels ELSE geoModels

\* C25, amended: the descriptor of an identifier is taken from the first
\* matching document that supplies it (it extracts, parses and yields a
\* usable reference).  A value of a descriptor map never changes nor
\* disappears; a document met after the identifier was supplied is not
\* parsed; and a document that is taken is one met while the map held
\* nothing for the identifier.
FirstSupplierOnly ==
  [][ /\ \A key \in DOMAIN blockModels :
           key \in DOMAIN blockModels' /\ blockModels'[key] = blockModels[key]
      /\ \A key \in DOMAIN geoModels :
           key \in DOMAIN geoModels' /\ geoModels'[key] = geoModels[key]
      /\ \A b \in docLog' \ docLog :
           /\ Supplied(docLog, b) => (~b.read /\ ~b.took)
           /\ b.took <=> (b.key \in DOMAIN MapOf(b.kind)' \ DOMAIN MapOf(b.kind))
    ]_vars

\* A model document was taken and a later document of the same identifier,
\* extractable, was met and not parsed.
FirstSupplierOnlyWitness ==
  \E a \in docLog, b \in docLog :
    Earlier(a, b) /\ a.kind = "model" /\ a.took /\ ~b.fresh /\ ~b.read

\* The manifest keys that hold a head uv record.
HeadUvKeys == {key \o "#head_uv" : key \in DOMAIN geoModels}

\* C26: at the end of a run every manifest value other than a head uv record
\* is the relative path of a file of the output icons directory, whichever
\* entries could be extracted.
ManifestFilesExist ==
  (pc = "done") =>
    (\A key \in DOMAIN manifest \ HeadUvKeys : manifest[key] \in files)

\* C27: in every emitted atlas manifest the tile rectangle of each icon,
\* [x, x + tile) by [y, y + tile), lies inside the width by height canvas,
\* and no two distinct identifiers of `icons` have the same (x, y).
TilesInsideAndApart ==
  atlasManifest.written =>
    LET m == atlasManifest IN
    /\ \A id \in DOMAIN m.icons :
         /\ 0 <= m.icons[id].x /\ m.icons[id].x + m.tile <= m.width
         /\ 0 <= m.icons[id].y /\ m.icons[id].y + m.tile <= m.height
    /\ \A id1 \in DOMAIN m.icons, id2 \in DOMAIN m.icons :
         (id1 # id2) =>
           (<<m.icons[id1].x, m.icons[id1].y>> # <<m.icons[id2].x, m.icons[id2].y>>)

\* An emitted manifest of more than one row, with an icon in the last column
\* of the first row and an icon in the second row, one image having failed.
TilesInsideAndApartWitness ==
  /\ atlasManifest.written
  /\ atlasManifest.rows >= 2
  /\ failed > 0
  /\ \E id \in DOMAIN atlasManifest.icons :
       atlasManifest.icons[id].x + atlasManifest.tile = atlasManifest.width
  /\ \E id \in DOMAIN atlasManifest.icons : atlasManifest.icons[id].y > 0

====
